---- MODULE Spec2Model ----
(***************************************************************************)
(* Model of src/app.py: the in-memory conversation state of the meeting    *)
(* scheduler and its two state-changing routes, POST /transcribe and POST  *)
(* /schedule, with the language model, the calendar and the persistence    *)
(* store as nondeterministic collaborators.                                *)
(*                                                                         *)
(* A text is a sequence of chunks (strings).  A chunk is a run of          *)
(* characters the code treats as a unit: a code fence, a run of            *)
(* whitespace, a JSON object text, a brace, or plain prose.                *)
(***************************************************************************)
EXTENDS Integers, Sequences, FiniteSets, TLC

VARIABLES
    chat_history,      \* state['chat_history']
    meeting_details,   \* state['meeting_details']
    calendar_service,  \* state['calendar_service']
    llm,               \* the Gemini model object, None when configuration failed
    supabase,          \* the Supabase client, None when the connection failed
    calendar,          \* events the calendar API has created
    meetings,          \* rows of the "meetings" table
    request,           \* the last request: its body, what the collaborators
                       \* answered and the draft it found
    response,          \* the HTTP response to it and the branch that built it
    calls,             \* the collaborator calls made while handling it
    threads,           \* the locals of the schedule() calls in flight
    draft_id,          \* which dict object state['meeting_details'] holds:
                       \* the number of assignments at line 282 so far
    event_drafts       \* for each calendar event, the draft it was made from

vars == <<chat_history, meeting_details, calendar_service, llm, supabase,
          calendar, meetings, request, response, calls, threads, draft_id,
          event_drafts>>

(***************************************************************************)
(* Bounds.                                                                 *)
(***************************************************************************)
MaxHistory == 6
MaxEvents == 2
\* the threaded server: requests in flight at once, and the turns of a
\* conversation with overlapping requests
NumWorkers == 2
MaxConcHistory == 4

(***************************************************************************)
(* Python values.                                                          *)
(***************************************************************************)
None == "None"
EmptyDict == <<>>

\* dict.get(key, default)
DictGet(d, k, default) == IF k \in DOMAIN d THEN d[k] ELSE default

\* truth value of a dict, a str, a list
DictTruthy(d) == DOMAIN d # {}
StrTruthy(s) == s # ""
ListTruthy(l) == Len(l) # 0

\* strings for which s.strip() is empty
BlankStrings == {"", " ", "\n"}
StrStrip(s) == IF s \in BlankStrings THEN "" ELSE s

(***************************************************************************)
(* Texts as sequences of chunks.                                           *)
(***************************************************************************)
\* the Markdown code-fence markers (three backquotes, with and without the json tag)
FenceJson == "<fence>json"
Fence == "<fence>"
WhitespaceChunks == {" ", "\n"}

RECURSIVE RemoveChunk(_, _)
\* text.replace(chunk, '')
RemoveChunk(text, chunk) ==
    IF text = <<>> THEN <<>>
    ELSE IF Head(text) = chunk THEN RemoveChunk(Tail(text), chunk)
    ELSE <<Head(text)>> \o RemoveChunk(Tail(text), chunk)

RECURSIVE LStrip(_)
LStrip(text) ==
    IF text = <<>> THEN <<>>
    ELSE IF Head(text) \in WhitespaceChunks THEN LStrip(Tail(text))
    ELSE text

RECURSIVE RStrip(_)
RStrip(text) ==
    IF text = <<>> THEN <<>>
    ELSE IF text[Len(text)] \in WhitespaceChunks
         THEN RStrip(SubSeq(text, 1, Len(text) - 1))
    ELSE text

\* text.strip()
Strip(text) == RStrip(LStrip(text))

\* response.replace(FenceJson, '').replace(Fence, '').strip()
CleanResponse(resp) == Strip(RemoveChunk(RemoveChunk(resp, FenceJson), Fence))

\* text.startswith(prefix), prefix one chunk
StartsWith(text, prefix) == text # <<>> /\ Head(text) = prefix

(***************************************************************************)
(* Model replies: the JSON object texts the language model may return, and *)
(* json.loads on them (a dict is a function from its keys to its values).  *)
(***************************************************************************)
JStandup ==
    "{\"title\":\"Standup\",\"date\":\"2025-05-19\",\"time\":\"09:00\",\"timezone\":\"Asia/Kolkata\",\"description\":\"Daily sync\",\"agenda\":\"1. Status\",\"attendees\":[\"a@x.com\",\"b@x.com\"]}"
JReview ==
    "{\"title\":\"Review\",\"date\":\"2025-05-20\",\"time\":\"10:30\",\"timezone\":\"UTC\",\"description\":\"\",\"agenda\":\"\",\"attendees\":[\"c@x.com\",\"c@x.com\"]}"
JBlank ==
    "{\"title\":\"\",\"date\":\"2025-05-19\",\"time\":\"09:00\",\"timezone\":\"Asia/Kolkata\",\"description\":\"\",\"agenda\":\"\",\"attendees\":[]}"
JSpace ==
    "{\"title\":\" \",\"date\":\"2025-05-19\",\"time\":\"09:00\",\"timezone\":\"Asia/Kolkata\",\"description\":\"\",\"agenda\":\"\",\"attendees\":[]}"
JNoTitle ==
    "{\"date\":\"2025-05-20\",\"time\":\"10:30\",\"timezone\":\"UTC\",\"description\":\"\",\"agenda\":\"\",\"attendees\":[\"c@x.com\",\"c@x.com\"]}"
JNoDescription ==
    "{\"title\":\"Review\",\"date\":\"2025-05-20\",\"time\":\"10:30\",\"timezone\":\"UTC\",\"agenda\":\"\",\"attendees\":[\"c@x.com\",\"c@x.com\"]}"
JNoAgenda ==
    "{\"title\":\"Review\",\"date\":\"2025-05-20\",\"time\":\"10:30\",\"timezone\":\"UTC\",\"description\":\"\",\"attendees\":[\"c@x.com\",\"c@x.com\"]}"
JNoAttendees ==
    "{\"title\":\"Review\",\"date\":\"2025-05-20\",\"time\":\"10:30\",\"timezone\":\"UTC\",\"description\":\"\",\"agenda\":\"\"}"
JNoDate ==
    "{\"title\":\"Review\",\"time\":\"10:30\",\"timezone\":\"UTC\",\"description\":\"\",\"agenda\":\"\",\"attendees\":[\"c@x.com\",\"c@x.com\"]}"
JNoTime ==
    "{\"title\":\"Review\",\"date\":\"2025-05-20\",\"timezone\":\"UTC\",\"description\":\"\",\"agenda\":\"\",\"attendees\":[\"c@x.com\",\"c@x.com\"]}"
JNoTimezone ==
    "{\"title\":\"Review\",\"date\":\"2025-05-20\",\"time\":\"10:30\",\"description\":\"\",\"agenda\":\"\",\"attendees\":[\"c@x.com\",\"c@x.com\"]}"
JEmpty ==
    "{}"
JBadZone ==
    "{\"title\":\"Review\",\"date\":\"2025-05-20\",\"time\":\"10:30\",\"timezone\":\"Mars/Base\",\"description\":\"\",\"agenda\":\"\",\"attendees\":[\"c@x.com\",\"c@x.com\"]}"
JNoZoneName ==
    "{\"title\":\"Review\",\"date\":\"2025-05-20\",\"time\":\"10:30\",\"timezone\":\"\",\"description\":\"\",\"agenda\":\"\",\"attendees\":[\"c@x.com\",\"c@x.com\"]}"
JPast ==
    "{\"title\":\"Review\",\"date\":\"2025-05-17\",\"time\":\"10:30\",\"timezone\":\"UTC\",\"description\":\"\",\"agenda\":\"\",\"attendees\":[\"c@x.com\",\"c@x.com\"]}"
JBadDate ==
    "{\"title\":\"Review\",\"date\":\"tomorrow\",\"time\":\"10:30\",\"timezone\":\"UTC\",\"description\":\"\",\"agenda\":\"\",\"attendees\":[\"c@x.com\",\"c@x.com\"]}"
\* an attendee list holding a JSON null
JNullAttendee ==
    "{\"title\":\"Review\",\"date\":\"2025-05-20\",\"time\":\"10:30\",\"timezone\":\"UTC\",\"description\":\"\",\"agenda\":\"\",\"attendees\":[null]}"
\* braces around text that is not JSON
JMalformed == "{title: Standup tomorrow at 9}"

JsonObjectTexts ==
    {JStandup, JReview, JBlank, JSpace,
     JNoTitle, JNoDescription, JNoAgenda, JNoAttendees,
     JNoDate, JNoTime, JNoTimezone, JEmpty,
     JBadZone, JNoZoneName, JPast, JBadDate,
     JNullAttendee}

\* json.loads(text) for a text that is one well-formed JSON object
JsonValue(chunk) ==
    CASE chunk = JStandup ->
           [title |-> "Standup", date |-> "2025-05-19", time |-> "09:00", timezone |-> "Asia/Kolkata", description |-> "Daily sync", agenda |-> "1. Status", attendees |-> <<"a@x.com", "b@x.com">>]
      [] chunk = JReview ->
           [title |-> "Review", date |-> "2025-05-20", time |-> "10:30", timezone |-> "UTC", description |-> "", agenda |-> "", attendees |-> <<"c@x.com", "c@x.com">>]
      [] chunk = JBlank ->
           [title |-> "", date |-> "2025-05-19", time |-> "09:00", timezone |-> "Asia/Kolkata", description |-> "", agenda |-> "", attendees |-> <<>>]
      [] chunk = JSpace ->
           [title |-> " ", date |-> "2025-05-19", time |-> "09:00", timezone |-> "Asia/Kolkata", description |-> "", agenda |-> "", attendees |-> <<>>]
      [] chunk = JNoTitle ->
           [date |-> "2025-05-20", time |-> "10:30", timezone |-> "UTC", description |-> "", agenda |-> "", attendees |-> <<"c@x.com", "c@x.com">>]
      [] chunk = JNoDescription ->
           [title |-> "Review", date |-> "2025-05-20", time |-> "10:30", timezone |-> "UTC", agenda |-> "", attendees |-> <<"c@x.com", "c@x.com">>]
      [] chunk = JNoAgenda ->
           [title |-> "Review", date |-> "2025-05-20", time |-> "10:30", timezone |-> "UTC", description |-> "", attendees |-> <<"c@x.com", "c@x.com">>]
      [] chunk = JNoAttendees ->
           [title |-> "Review", date |-> "2025-05-20", time |-> "10:30", timezone |-> "UTC", description |-> "", agenda |-> ""]
      [] chunk = JNoDate ->
           [title |-> "Review", time |-> "10:30", timezone |-> "UTC", description |-> "", agenda |-> "", attendees |-> <<"c@x.com", "c@x.com">>]
      [] chunk = JNoTime ->
           [title |-> "Review", date |-> "2025-05-20", timezone |-> "UTC", description |-> "", agenda |-> "", attendees |-> <<"c@x.com", "c@x.com">>]
      [] chunk = JNoTimezone ->
           [title |-> "Review", date |-> "2025-05-20", time |-> "10:30", description |-> "", agenda |-> "", attendees |-> <<"c@x.com", "c@x.com">>]
      [] chunk = JEmpty ->
           EmptyDict
      [] chunk = JBadZone ->
           [title |-> "Review", date |-> "2025-05-20", time |-> "10:30", timezone |-> "Mars/Base", description |-> "", agenda |-> "", attendees |-> <<"c@x.com", "c@x.com">>]
      [] chunk = JNoZoneName ->
           [title |-> "Review", date |-> "2025-05-20", time |-> "10:30", timezone |-> "", description |-> "", agenda |-> "", attendees |-> <<"c@x.com", "c@x.com">>]
      [] chunk = JPast ->
           [title |-> "Review", date |-> "2025-05-17", time |-> "10:30", timezone |-> "UTC", description |-> "", agenda |-> "", attendees |-> <<"c@x.com", "c@x.com">>]
      [] chunk = JNullAttendee ->
           [title |-> "Review", date |-> "2025-05-20", time |-> "10:30", timezone |-> "UTC", description |-> "", agenda |-> "", attendees |-> <<None>>]
      [] chunk = JBadDate ->
           [title |-> "Review", date |-> "tomorrow", time |-> "10:30", timezone |-> "UTC", description |-> "", agenda |-> "", attendees |-> <<"c@x.com", "c@x.com">>]


\* chunks that contain an opening brace, a closing brace
BraceTexts == JsonObjectTexts \cup {JMalformed}
HasOpen(chunk) == chunk = "{" \/ chunk \in BraceTexts
HasClose(chunk) == chunk = "}" \/ chunk \in BraceTexts

Min(S) == CHOOSE m \in S : \A n \in S : m <= n
Max(S) == CHOOSE m \in S : \A n \in S : m >= n

\* re.search(r'\{[\s\S]*\}', text): greedy, from the first opening brace
\* to the last closing brace; None when there is no such span
ReSearch(text) ==
    LET opens == {i \in 1..Len(text) : HasOpen(text[i])}
        closes == {j \in 1..Len(text) : HasClose(text[j])}
    IN IF opens = {} \/ closes = {} \/ Max(closes) < Min(opens)
       THEN [found |-> FALSE, first |-> 0, last |-> 0]
       ELSE [found |-> TRUE, first |-> Min(opens), last |-> Max(closes)]

\* json_match.group(0)
MatchGroup(text, m) == SubSeq(text, m.first, m.last)

\* cleaned_response.replace(json_str, '').strip()
ConversationalMessage(text, m) ==
    Strip(SubSeq(text, 1, m.first - 1) \o SubSeq(text, m.last + 1, Len(text)))

\* json.loads(json_str) succeeds on exactly one well-formed object text
JsonLoadsOk(json_str) == Len(json_str) = 1 /\ json_str[1] \in JsonObjectTexts
JsonLoads(json_str) == JsonValue(json_str[1])

(***************************************************************************)
(* Dates, times and zones.                                                 *)
(***************************************************************************)
\* datetime.strptime(..., '%Y-%m-%d %H:%M') on the date and time strings
ParsableDates == {"2025-05-17", "2025-05-19", "2025-05-20"}
ParsableTimes == {"09:00", "10:30"}
ParseDate(s) ==
    CASE s = "2025-05-17" -> [year |-> 2025, month |-> 5, day |-> 17]
      [] s = "2025-05-19" -> [year |-> 2025, month |-> 5, day |-> 19]
      [] s = "2025-05-20" -> [year |-> 2025, month |-> 5, day |-> 20]
ParseTime(s) ==
    CASE s = "09:00" -> [hour |-> 9, minute |-> 0]
      [] s = "10:30" -> [hour |-> 10, minute |-> 30]

\* pytz.timezone(name) raises UnknownTimeZoneError outside these
KnownZones == {"Asia/Kolkata", "UTC"}

\* utcoffset, in minutes, of the tzinfo object pytz.timezone(name) when it is
\* attached with datetime.replace(tzinfo=...): the zone's first (LMT) entry
PytzReplaceOffset(zone) ==
    CASE zone = "Asia/Kolkata" -> 353
      [] zone = "UTC" -> 0

\* datetime.strptime(date + ' ' + time, fmt).replace(tzinfo=pytz.timezone(zone))
MakeStartTime(date, time, zone) ==
    [year |-> ParseDate(date).year, month |-> ParseDate(date).month,
     day |-> ParseDate(date).day, hour |-> ParseTime(time).hour,
     minute |-> ParseTime(time).minute, tzname |-> zone,
     utcoffset |-> PytzReplaceOffset(zone)]

\* dt + timedelta(minutes=60), within one month
AddHour(dt) ==
    IF dt.hour < 23 THEN [dt EXCEPT !.hour = dt.hour + 1]
    ELSE [dt EXCEPT !.hour = 0, !.day = dt.day + 1]

Digits == <<"0", "1", "2", "3", "4", "5", "6", "7", "8", "9">>
TwoDigits(n) == <<Digits[(n \div 10) + 1], Digits[(n % 10) + 1]>>
FourDigits(n) == TwoDigits(n \div 100) \o TwoDigits(n % 100)

\* dt.strftime('%Y-%m-%d %H:%M')
Strftime(dt) ==
    FourDigits(dt.year) \o <<"-">> \o TwoDigits(dt.month) \o <<"-">>
    \o TwoDigits(dt.day) \o <<" ">> \o TwoDigits(dt.hour) \o <<":">>
    \o TwoDigits(dt.minute)

(***************************************************************************)
(* Collaborators: what the language model, the credential files, the       *)
(* calendar API and the persistence store can answer to one request.       *)
(***************************************************************************)
ModelTexts ==
    {<<JsonText>> : JsonText \in BraceTexts}
    \cup {<<>>,
          <<"SCHEDULE">>,
          <<"SCHEDULE", "\n">>,
          <<"CLARIFY", ": need more info">>,
          <<"CLARIFY", ": did you mean ", "{", "Standup", "}", "?">>,
          <<"Sorry, I can only help with meetings.">>,
          <<FenceJson, "\n", JStandup, "\n", Fence>>,
          <<"Sure, I have noted the review.", " ", JReview>>,
          <<JStandup, " or ", JReview>>}

NotCalled == [kind |-> "not called", text |-> <<>>]
ModelOutcomes ==
    {[kind |-> "text", text |-> t] : t \in ModelTexts}
    \cup {[kind |-> "raise", text |-> <<"429 quota exceeded">>]}

NoCall == [creds |-> FALSE, insert |-> "not called", store |-> "not called"]
CalendarOutcomes(full) ==
    [creds : BOOLEAN,
     insert : IF full THEN {"raise"} ELSE {"ok", "raise"},
     store : {"ok", "raise"}]

EventIds == <<"evt_1", "evt_2", "evt_3", "evt_4">>

\* request.json of POST /transcribe
RequestBodies == {EmptyDict, [input |-> ""], [input |-> "standup tomorrow at 9"]}

(***************************************************************************)
(* get_gemini_response                                                     *)
(***************************************************************************)
GetGeminiResponse(model, out) ==
    IF model = None THEN <<"Gemini API not initialized.">>
    ELSE IF out.kind = "raise"
         THEN <<"Oops, something went wrong: ">> \o out.text
              \o <<". Could you try again?">>
    ELSE IF out.text # <<>> THEN Strip(out.text)
    ELSE <<"Failed to generate response.">>

(***************************************************************************)
(* schedule_meeting                                                        *)
(***************************************************************************)
NoError == <<>>
MissingCredentialsMessage ==
    <<"Looks like your Google Calendar credentials are missing or invalid. Please ensure credentials.json is in the project directory and re-authenticate.">>
SchedulingFailedMessage(e) ==
    <<"Oops, I couldn't schedule the meeting: ">> \o e
    \o <<". Please check if credentials.json is valid, re-authenticate if needed, and ensure your Google Calendar is accessible.">>
StoreFailedMessage == <<"Meeting scheduled, but failed to store in Supabase.">>

\* the summary sent to the calendar
EventTitle(details) ==
    LET title == DictGet(details, "title", "Meeting")
    IN IF StrStrip(title) = "" THEN "Meeting" ELSE title

\* description and agenda combined
EventDescription(details) ==
    LET description == DictGet(details, "description", "")
        agenda == DictGet(details, "agenda", "")
    IN IF StrTruthy(agenda)
       THEN IF StrTruthy(description)
            THEN <<description, "\n\nAgenda: ", agenda>>
            ELSE <<"Agenda: ", agenda>>
       ELSE <<description>>

EventBody(details) ==
    [summary |-> EventTitle(details),
     description |-> EventDescription(details),
     start |-> [dateTime |-> details.start_time,
                timeZone |-> DictGet(details, "timezone", "Asia/Kolkata")],
     end |-> [dateTime |-> AddHour(details.start_time),
              timeZone |-> DictGet(details, "timezone", "Asia/Kolkata")],
     attendees |-> DictGet(details, "attendees", <<>>)]

MeetingRow(id, details) ==
    [event_id |-> id,
     title |-> EventTitle(details),
     start_time |-> details.start_time,
     description |-> EventDescription(details),
     attendees |-> DictGet(details, "attendees", <<>>),
     agenda |-> DictGet(details, "agenda", "")]

\* schedule_meeting(details): the pair it returns and the state it leaves
ScheduleMeeting(details, svc, store, cal, rows, out) ==
    LET service == IF svc # None THEN svc
                   ELSE IF out.creds THEN "service" ELSE None
        id == EventIds[Len(cal) + 1]
        event == [id |-> id] @@ EventBody(details)
        auth == IF svc # None THEN <<>> ELSE <<"get_calendar_service">>
    IN IF service = None
       THEN [event_id |-> None, error |-> MissingCredentialsMessage,
             calendar_service |-> svc, calendar |-> cal, meetings |-> rows,
             calls |-> auth]
       ELSE IF "start_time" \notin DOMAIN details
       THEN [event_id |-> None,
             error |-> SchedulingFailedMessage(<<"'", "start_time", "'">>),
             calendar_service |-> service, calendar |-> cal, meetings |-> rows,
             calls |-> auth]
       ELSE IF out.insert = "raise"
       THEN [event_id |-> None,
             error |-> SchedulingFailedMessage(<<"HttpError 403">>),
             calendar_service |-> service, calendar |-> cal, meetings |-> rows,
             calls |-> auth \o <<"events.insert">>]
       ELSE IF store # None /\ out.store = "raise"
       THEN [event_id |-> id, error |-> StoreFailedMessage,
             calendar_service |-> service, calendar |-> Append(cal, event),
             meetings |-> rows,
             calls |-> auth \o <<"events.insert", "meetings.insert">>]
       ELSE [event_id |-> id, error |-> NoError,
             calendar_service |-> service, calendar |-> Append(cal, event),
             meetings |-> IF store # None
                          THEN Append(rows, MeetingRow(id, details))
                          ELSE rows,
             calls |-> auth \o <<"events.insert">>
                       \o (IF store # None THEN <<"meetings.insert">>
                           ELSE <<>>)]

(***************************************************************************)
(* POST /transcribe                                                        *)
(***************************************************************************)
UserTurn(message) == [role |-> "user", message |-> message]
AssistantTurn(message) == [role |-> "Assistant", message |-> message]

\* MessageBody returning only the turn just appended
MessageBody_DeltaOnly(message, history) ==
    [message |-> message, chat_history |-> <<history[Len(history)]>>]

\* jsonify({'message': ..., 'chat_history': ...})
MessageBody(message, history) ==
    [message |-> message, chat_history |-> history]

NothingToScheduleMessage ==
    <<"Hmm, I don't have any meeting details to schedule yet. Try sharing some details first!">>
AllDoneMessage(event_id) ==
    <<"All done! Your meeting's scheduled with Event ID: ", event_id,
      ". Check your Google Calendar and email for the details!">>
DecodeErrorMessage ==
    <<"Oops, I had trouble understanding your meeting details. Could you clarify the title, date, or attendees?">>
ProcessingErrorMessage(e) ==
    <<"Hmm, something went wrong while processing your request: ">> \o e
    \o <<". Could you try again with the details?">>

\* a or b, on strings and on lists
StrOr(a, b) == IF StrTruthy(a) THEN a ELSE b
ListOr(a, b) == IF ListTruthy(a) THEN a ELSE b

KeyErrorText(key) == <<"'", key, "'">>

\* MergeDetails storing the extracted title as given, with no fallback
MergeDetails_TitleAsGiven(cd, prior) ==
    [title |-> cd.title,
     description |-> StrOr(cd.description, DictGet(prior, "description", "")),
     agenda |-> StrOr(cd.agenda, DictGet(prior, "agenda", "")),
     start_time |-> MakeStartTime(cd.date, cd.time, cd.timezone),
     attendees |-> ListOr(cd.attendees, DictGet(prior, "attendees", <<>>)),
     timezone |-> StrOr(cd.timezone, DictGet(prior, "timezone", "Asia/Kolkata"))]

\* MergeDetails appending the extracted attendees to the prior ones
MergeDetails_AppendAttendees(cd, prior) ==
    [title |-> StrOr(cd.title, DictGet(prior, "title", "Meeting")),
     description |-> StrOr(cd.description, DictGet(prior, "description", "")),
     agenda |-> StrOr(cd.agenda, DictGet(prior, "agenda", "")),
     start_time |-> MakeStartTime(cd.date, cd.time, cd.timezone),
     attendees |-> DictGet(prior, "attendees", <<>>) \o cd.attendees,
     timezone |-> StrOr(cd.timezone, DictGet(prior, "timezone", "Asia/Kolkata"))]

\* MergeDetails storing the extracted description and agenda as given
MergeDetails_TextsAsGiven(cd, prior) ==
    [title |-> StrOr(cd.title, DictGet(prior, "title", "Meeting")),
     description |-> cd.description,
     agenda |-> cd.agenda,
     start_time |-> MakeStartTime(cd.date, cd.time, cd.timezone),
     attendees |-> ListOr(cd.attendees, DictGet(prior, "attendees", <<>>)),
     timezone |-> StrOr(cd.timezone, DictGet(prior, "timezone", "Asia/Kolkata"))]

\* the new meeting_details built from the parsed reply and the prior ones
MergeDetails(cd, prior) ==
    [title |-> StrOr(cd.title, DictGet(prior, "title", "Meeting")),
     description |-> StrOr(cd.description, DictGet(prior, "description", "")),
     agenda |-> StrOr(cd.agenda, DictGet(prior, "agenda", "")),
     start_time |-> MakeStartTime(cd.date, cd.time, cd.timezone),
     attendees |-> ListOr(cd.attendees, DictGet(prior, "attendees", <<>>)),
     timezone |-> StrOr(cd.timezone, DictGet(prior, "timezone", "Asia/Kolkata"))]

Raised(exc, text) == [exception |-> exc, text |-> text]

\* the body of the else branch up to the assignment of meeting_details:
\* the exception it raises, or "none" and the new details
ParseAndMerge(json_str, prior) ==
    IF ~JsonLoadsOk(json_str) THEN Raised("JSONDecodeError", <<>>)
    ELSE LET cd == JsonLoads(json_str)
             keys == DOMAIN cd
         IN IF "date" \notin keys THEN Raised("KeyError", KeyErrorText("date"))
            ELSE IF "time" \notin keys
            THEN Raised("KeyError", KeyErrorText("time"))
            ELSE IF cd.date \notin ParsableDates \/ cd.time \notin ParsableTimes
            THEN Raised("ValueError",
                        <<"time data '", cd.date, " ", cd.time,
                          "' does not match format '%Y-%m-%d %H:%M'">>)
            ELSE IF "timezone" \notin keys
            THEN Raised("KeyError", KeyErrorText("timezone"))
            ELSE IF cd.timezone \notin KnownZones
            THEN Raised("UnknownTimeZoneError", KeyErrorText(cd.timezone))
            ELSE IF "title" \notin keys
            THEN Raised("KeyError", KeyErrorText("title"))
            ELSE IF "description" \notin keys
            THEN Raised("KeyError", KeyErrorText("description"))
            ELSE IF "agenda" \notin keys
            THEN Raised("KeyError", KeyErrorText("agenda"))
            ELSE IF "attendees" \notin keys
            THEN Raised("KeyError", KeyErrorText("attendees"))
            ELSE [exception |-> "none", text |-> <<>>,
                  details |-> MergeDetails(cd, prior)]

RECURSIVE Join(_, _)
\* sep.join(list)
Join(sep, list) ==
    IF list = <<>> THEN <<>>
    ELSE IF Len(list) = 1 THEN list
    ELSE <<Head(list), sep>> \o Join(sep, Tail(list))

\* sep.join(list) raises TypeError when an item is not a str
JoinRaises(list) == \E i \in 1..Len(list) : list[i] = None
JoinTypeErrorText(list) ==
    <<"sequence item ",
      Digits[Min({i \in 1..Len(list) : list[i] = None})],
      ": expected str instance, NoneType found">>

\* the confirmation-seeking summary of the draft
SummaryMessage(details) ==
    <<"Sir, I've got your ", details.title, " set for ">>
    \o Strftime(details.start_time) \o <<" ", details.timezone, " with ">>
    \o (IF ListTruthy(details.attendees) THEN Join(", ", details.attendees)
        ELSE <<"no attendees">>)
    \o <<". Description: ", StrOr(details.description, "none"),
         ". Agenda: ", StrOr(details.agenda, "none"),
         ". Just say 'Confirm the meeting' to lock it in, or tweak it in the form!">>

\* what a handler leaves behind: the state, the response and the calls made
Outcome(history, details, service, cal, rows, status, body, exception, made, branch) ==
    [chat_history |-> history, meeting_details |-> details,
     calendar_service |-> service, calendar |-> cal, meetings |-> rows,
     response |-> [status |-> status, body |-> body, exception |-> exception,
                   branch |-> branch],
     calls |-> made]

\* the SCHEDULE branch of transcribe, entered with the user turn appended
TranscribeScheduleBranch(history, made, out) ==
    IF DictTruthy(meeting_details)
    THEN LET r == ScheduleMeeting(meeting_details, calendar_service, supabase,
                                  calendar, meetings, out)
             message == IF r.event_id # None THEN AllDoneMessage(r.event_id)
                        ELSE r.error
             h == Append(history, AssistantTurn(message))
         IN Outcome(h,
                    IF r.event_id # None THEN EmptyDict ELSE meeting_details,
                    r.calendar_service, r.calendar, r.meetings,
                    200, MessageBody(message, h), None, made \o r.calls,
                    "schedule")
    ELSE LET h == Append(history, AssistantTurn(NothingToScheduleMessage))
         IN Outcome(h, meeting_details, calendar_service, calendar, meetings,
                    200, MessageBody(NothingToScheduleMessage, h), None, made,
                    "nothing to schedule")

\* TranscribeTry storing the extracted title before the rest is parsed
TranscribeTry_MergesTitleFirst(history, made, cleaned_response, json_str, conversational_message, out) ==
    IF cleaned_response = <<"SCHEDULE">>
    THEN TranscribeScheduleBranch(history, made, out)
    ELSE IF StartsWith(cleaned_response, "CLARIFY")
    THEN LET h == Append(history, AssistantTurn(cleaned_response))
         IN Outcome(h, meeting_details, calendar_service, calendar, meetings,
                    200, MessageBody(cleaned_response, h), None, made,
                    "clarify")
    ELSE LET p == ParseAndMerge(json_str, meeting_details)
             \* meeting_details is assigned at line 282; the summary is
             \* built after it, at lines 291-294, still inside the try
             assigned == p.exception = "none"
             summary_raises == assigned /\ JoinRaises(p.details.attendees)
             message ==
                 CASE summary_raises ->
                        ProcessingErrorMessage(
                            JoinTypeErrorText(p.details.attendees))
                   [] p.exception = "none" ->
                        IF Strip(conversational_message) # <<>>
                        THEN conversational_message
                        ELSE SummaryMessage(p.details)
                   [] p.exception = "JSONDecodeError" -> DecodeErrorMessage
                   [] OTHER -> ProcessingErrorMessage(p.text)
             h == Append(history, AssistantTurn(message))
         IN Outcome(h,
                    IF assigned THEN p.details
                    ELSE IF /\ JsonLoadsOk(json_str)
                            /\ "title" \in DOMAIN JsonLoads(json_str)
                            /\ DictTruthy(meeting_details)
                    THEN [meeting_details EXCEPT
                            !.title = StrOr(JsonLoads(json_str).title, @)]
                    ELSE meeting_details,
                    calendar_service, calendar, meetings,
                    200, MessageBody(message, h), None, made,
                    IF summary_raises THEN "TypeError"
                    ELSE IF assigned THEN "fields" ELSE p.exception)

\* the try block of transcribe and its two except clauses
TranscribeTry(history, made, cleaned_response, json_str, conversational_message, out) ==
    IF cleaned_response = <<"SCHEDULE">>
    THEN TranscribeScheduleBranch(history, made, out)
    ELSE IF StartsWith(cleaned_response, "CLARIFY")
    THEN LET h == Append(history, AssistantTurn(cleaned_response))
         IN Outcome(h, meeting_details, calendar_service, calendar, meetings,
                    200, MessageBody(cleaned_response, h), None, made,
                    "clarify")
    ELSE LET p == ParseAndMerge(json_str, meeting_details)
             \* meeting_details is assigned at line 282; the summary is
             \* built after it, at lines 291-294, still inside the try
             assigned == p.exception = "none"
             summary_raises == assigned /\ JoinRaises(p.details.attendees)
             message ==
                 CASE summary_raises ->
                        ProcessingErrorMessage(
                            JoinTypeErrorText(p.details.attendees))
                   [] p.exception = "none" ->
                        IF Strip(conversational_message) # <<>>
                        THEN conversational_message
                        ELSE SummaryMessage(p.details)
                   [] p.exception = "JSONDecodeError" -> DecodeErrorMessage
                   [] OTHER -> ProcessingErrorMessage(p.text)
             h == Append(history, AssistantTurn(message))
         IN Outcome(h,
                    IF assigned THEN p.details ELSE meeting_details,
                    calendar_service, calendar, meetings,
                    200, MessageBody(message, h), None, made,
                    IF summary_raises THEN "TypeError"
                    ELSE IF assigned THEN "fields" ELSE p.exception)

\* TranscribeHandler appending the user turn before it validates the input
TranscribeHandler_AppendsBeforeValidation(body, out, cal) ==
    LET user_input == DictGet(body, "input", None)
        history == Append(chat_history, UserTurn(<<user_input>>))
    IN IF user_input \in {None, ""}
       THEN Outcome(history, meeting_details, calendar_service, calendar,
                    meetings, 400,
                    [error |-> <<"No input provided.">>,
                     chat_history |-> history],
                    None, <<>>, "no input")
       ELSE LET made == IF llm = None THEN <<>> ELSE <<"generate_content">>
                gemini_response == GetGeminiResponse(llm, out)
                cleaned_response == CleanResponse(gemini_response)
                json_match == ReSearch(cleaned_response)
            IN IF json_match.found
               THEN TranscribeTry(history, made, cleaned_response,
                                  MatchGroup(cleaned_response, json_match),
                                  ConversationalMessage(cleaned_response,
                                                        json_match),
                                  cal)
               ELSE Outcome(history, meeting_details, calendar_service,
                            calendar, meetings, 500, EmptyDict, "NameError",
                            made, "NameError")

\* transcribe(): request.json is body; out and cal are what the model and
\* the calendar side answer if they are called
TranscribeHandler(body, out, cal) ==
    LET user_input == DictGet(body, "input", None)
    IN IF user_input \in {None, ""}
       THEN Outcome(chat_history, meeting_details, calendar_service, calendar,
                    meetings, 400,
                    [error |-> <<"No input provided.">>,
                     chat_history |-> chat_history],
                    None, <<>>, "no input")
       ELSE LET history == Append(chat_history, UserTurn(<<user_input>>))
                made == IF llm = None THEN <<>> ELSE <<"generate_content">>
                gemini_response == GetGeminiResponse(llm, out)
                cleaned_response == CleanResponse(gemini_response)
                json_match == ReSearch(cleaned_response)
            IN IF json_match.found
               THEN TranscribeTry(history, made, cleaned_response,
                                  MatchGroup(cleaned_response, json_match),
                                  ConversationalMessage(cleaned_response,
                                                        json_match),
                                  cal)
               \* json_str = cleaned(...): the name cleaned is not defined,
               \* and the statement is outside the try block
               ELSE Outcome(history, meeting_details, calendar_service,
                            calendar, meetings, 500, EmptyDict, "NameError",
                            made, "NameError")

(***************************************************************************)
(* POST /schedule                                                          *)
(***************************************************************************)
\* ScheduleHandler keeping the draft when the record could not be stored
ScheduleHandler_KeepOnStoreFailure(out) ==
    IF ~DictTruthy(meeting_details)
    THEN LET h == Append(chat_history, AssistantTurn(NothingToScheduleMessage))
         IN Outcome(h, meeting_details, calendar_service, calendar, meetings,
                    200, MessageBody(NothingToScheduleMessage, h), None, <<>>,
                    "nothing to schedule")
    ELSE LET r == ScheduleMeeting(meeting_details, calendar_service, supabase,
                                  calendar, meetings, out)
             message == IF r.event_id # None THEN AllDoneMessage(r.event_id)
                        ELSE r.error
             h == Append(chat_history, AssistantTurn(message))
         IN Outcome(h,
                    IF r.event_id # None /\ r.error = NoError
                    THEN EmptyDict ELSE meeting_details,
                    r.calendar_service, r.calendar, r.meetings,
                    200, MessageBody(message, h), None, r.calls, "schedule")

\* ScheduleHandler without the check for an empty draft
ScheduleHandler_NoEmptyCheck(out) ==
    LET r == ScheduleMeeting(meeting_details, calendar_service, supabase,
                             calendar, meetings, out)
        message == IF r.event_id # None THEN AllDoneMessage(r.event_id)
                   ELSE r.error
        h == Append(chat_history, AssistantTurn(message))
    IN Outcome(h,
               IF r.event_id # None THEN EmptyDict ELSE meeting_details,
               r.calendar_service, r.calendar, r.meetings,
               200, MessageBody(message, h), None, r.calls, "schedule")

\* ScheduleHandler that does not clear the draft after scheduling
ScheduleHandler_NeverClears(out) ==
    IF ~DictTruthy(meeting_details)
    THEN LET h == Append(chat_history, AssistantTurn(NothingToScheduleMessage))
         IN Outcome(h, meeting_details, calendar_service, calendar, meetings,
                    200, MessageBody(NothingToScheduleMessage, h), None, <<>>,
                    "nothing to schedule")
    ELSE LET r == ScheduleMeeting(meeting_details, calendar_service, supabase,
                                  calendar, meetings, out)
             message == IF r.event_id # None THEN AllDoneMessage(r.event_id)
                        ELSE r.error
             h == Append(chat_history, AssistantTurn(message))
         IN Outcome(h, meeting_details,
                    r.calendar_service, r.calendar, r.meetings,
                    200, MessageBody(message, h), None, r.calls, "schedule")

ScheduleHandler(out) ==
    IF ~DictTruthy(meeting_details)
    THEN LET h == Append(chat_history, AssistantTurn(NothingToScheduleMessage))
         IN Outcome(h, meeting_details, calendar_service, calendar, meetings,
                    200, MessageBody(NothingToScheduleMessage, h), None, <<>>,
                    "nothing to schedule")
    ELSE LET r == ScheduleMeeting(meeting_details, calendar_service, supabase,
                                  calendar, meetings, out)
             message == IF r.event_id # None THEN AllDoneMessage(r.event_id)
                        ELSE r.error
             h == Append(chat_history, AssistantTurn(message))
         IN Outcome(h,
                    IF r.event_id # None THEN EmptyDict ELSE meeting_details,
                    r.calendar_service, r.calendar, r.meetings,
                    200, MessageBody(message, h), None, r.calls, "schedule")

(***************************************************************************)
(* The state machine: requests are handled one at a time.                  *)
(***************************************************************************)
NoRequest ==
    [route |-> "none", body |-> EmptyDict, model |-> NotCalled,
     calendar |-> NoCall, prior_details |-> EmptyDict]
NoResponse ==
    [status |-> 0, body |-> EmptyDict, exception |-> None, branch |-> "none"]

\* the worker threads of the server and the locals of schedule() in each
Workers == 1..NumWorkers
Idle ==
    [pc |-> "idle", details |-> EmptyDict, draft |-> 0, event_id |-> None,
     error |-> NoError, calls |-> <<>>, out |-> NoCall]

Init ==
    /\ chat_history = <<>>
    /\ meeting_details = EmptyDict
    /\ calendar_service = None
    /\ llm \in {None, "model"}
    /\ supabase \in {None, "client"}
    /\ calendar = <<>>
    /\ meetings = <<>>
    /\ request = NoRequest
    /\ response = NoResponse
    /\ calls = <<>>
    /\ threads = [w \in Workers |-> Idle]
    /\ draft_id = 0
    /\ event_drafts = <<>>

\* the branches of transcribe() that run the assignment at line 282
AssigningBranches == {"fields", "TypeError"}

Install(r) ==
    /\ chat_history' = r.chat_history
    /\ meeting_details' = r.meeting_details
    /\ calendar_service' = r.calendar_service
    /\ calendar' = r.calendar
    /\ meetings' = r.meetings
    /\ response' = r.response
    /\ calls' = r.calls
    /\ draft_id' = IF r.response.branch \in AssigningBranches
                   THEN draft_id + 1 ELSE draft_id
    /\ event_drafts' = IF Len(r.calendar) > Len(calendar)
                       THEN Append(event_drafts, draft_id) ELSE event_drafts
    /\ UNCHANGED <<llm, supabase, threads>>

\* the answers of the calendar side that a request can consume
Consumed(made, cal) ==
    IF \E i \in 1..Len(made) : made[i] \in {"get_calendar_service",
                                           "events.insert"}
    THEN cal ELSE NoCall

Transcribe ==
    /\ Len(chat_history) + 2 <= MaxHistory
    /\ \E body \in RequestBodies :
       \E out \in (IF llm = None THEN {NotCalled} ELSE ModelOutcomes) :
       \E cal \in (IF CleanResponse(GetGeminiResponse(llm, out))
                        = <<"SCHEDULE">>
                    THEN CalendarOutcomes(Len(calendar) >= MaxEvents)
                    ELSE {NoCall}) :
          LET r == TranscribeHandler(body, out, cal)
          IN /\ Install(r)
             /\ request' = [route |-> "transcribe", body |-> body,
                            model |-> IF r.response.status = 400
                                      THEN NotCalled ELSE out,
                            calendar |-> Consumed(r.calls, cal),
                            prior_details |-> meeting_details]

Schedule ==
    /\ Len(chat_history) + 1 <= MaxHistory
    /\ \E cal \in (IF DictTruthy(meeting_details)
                    THEN CalendarOutcomes(Len(calendar) >= MaxEvents)
                    ELSE {NoCall}) :
          LET r == ScheduleHandler(cal)
          IN /\ Install(r)
             /\ request' = [route |-> "schedule", body |-> EmptyDict,
                            model |-> NotCalled,
                            calendar |-> Consumed(r.calls, cal),
                            prior_details |-> meeting_details]

Next == Transcribe \/ Schedule

Spec == Init /\ [][Next]_vars

(***************************************************************************)
(* The same routes under the threaded development server (app.run): the    *)
(* module-level state dict is shared by all request threads and no lock    *)
(* guards it.  schedule() is split where a thread can be overtaken: after  *)
(* the emptiness test at line 325, and after schedule_meeting returns from *)
(* its network calls.  transcribe() is taken whole.                        *)
(***************************************************************************)
InFlight == Cardinality({w \in Workers : threads[w].pc # "idle"})

\* lines 325-334: the emptiness test, then the argument of schedule_meeting
ScheduleBegin(w) ==
    /\ threads[w].pc = "idle"
    /\ Len(chat_history) + InFlight + 1 <= MaxConcHistory
    /\ IF ~DictTruthy(meeting_details)
       THEN LET h == Append(chat_history,
                            AssistantTurn(NothingToScheduleMessage))
            IN /\ chat_history' = h
               /\ response' = [status |-> 200,
                               body |-> MessageBody(NothingToScheduleMessage, h),
                               exception |-> None,
                               branch |-> "nothing to schedule"]
               /\ request' = [route |-> "schedule", body |-> EmptyDict,
                              model |-> NotCalled, calendar |-> NoCall,
                              prior_details |-> meeting_details]
               /\ calls' = <<>>
               /\ UNCHANGED threads
       ELSE /\ threads' = [threads EXCEPT
                             ![w] = [Idle EXCEPT !.pc = "calling",
                                                 !.details = meeting_details,
                                                 !.draft = draft_id]]
            /\ UNCHANGED <<chat_history, request, response, calls>>
    /\ UNCHANGED <<meeting_details, calendar_service, llm, supabase, calendar,
                   meetings, draft_id, event_drafts>>

\* line 334: schedule_meeting(details) runs and returns
ScheduleCall(w) ==
    /\ threads[w].pc = "calling"
    /\ \E out \in CalendarOutcomes(Len(calendar) >= MaxEvents) :
          LET r == ScheduleMeeting(threads[w].details, calendar_service,
                                   supabase, calendar, meetings, out)
          IN /\ calendar_service' = r.calendar_service
             /\ calendar' = r.calendar
             /\ meetings' = r.meetings
             /\ event_drafts' = IF Len(r.calendar) > Len(calendar)
                                THEN Append(event_drafts, threads[w].draft)
                                ELSE event_drafts
             /\ threads' = [threads EXCEPT
                              ![w] = [@ EXCEPT !.pc = "returned",
                                               !.event_id = r.event_id,
                                               !.error = r.error,
                                               !.calls = r.calls,
                                               !.out = out]]
    /\ UNCHANGED <<chat_history, meeting_details, llm, supabase, request,
                   response, calls, draft_id>>

\* lines 335-345: clear the draft or not, append the turn, reply
ScheduleFinish(w) ==
    /\ threads[w].pc = "returned"
    /\ LET t == threads[w]
           message == IF t.event_id # None THEN AllDoneMessage(t.event_id)
                      ELSE t.error
           h == Append(chat_history, AssistantTurn(message))
       IN /\ meeting_details' = IF t.event_id # None THEN EmptyDict
                                ELSE meeting_details
          /\ chat_history' = h
          /\ response' = [status |-> 200, body |-> MessageBody(message, h),
                          exception |-> None, branch |-> "schedule"]
          /\ request' = [route |-> "schedule", body |-> EmptyDict,
                         model |-> NotCalled,
                         calendar |-> Consumed(t.calls, t.out),
                         prior_details |-> t.details]
          /\ calls' = t.calls
    /\ threads' = [threads EXCEPT ![w] = Idle]
    /\ UNCHANGED <<calendar_service, llm, supabase, calendar, meetings,
                   draft_id, event_drafts>>

\* transcribe(), while schedule() calls may be in flight
TranscribeConcurrently ==
    /\ Len(chat_history) + InFlight + 2 <= MaxConcHistory
    /\ Transcribe

ScheduleBegins == \E w \in Workers : ScheduleBegin(w)
ScheduleCalls == \E w \in Workers : ScheduleCall(w)
ScheduleFinishes == \E w \in Workers : ScheduleFinish(w)

NextConcurrent ==
    TranscribeConcurrently \/ ScheduleBegins \/ ScheduleCalls
    \/ ScheduleFinishes

SpecConcurrent == Init /\ [][NextConcurrent]_vars

(***************************************************************************)
(* What the last request was, read back from request and response.         *)
(***************************************************************************)
\* the cleaned model reply of the last /transcribe
LastCleaned == CleanResponse(GetGeminiResponse(llm, request.model))
LastMatch == ReSearch(LastCleaned)
\* the reply carried one well-formed JSON object
LastParsed ==
    LastMatch.found /\ JsonLoadsOk(MatchGroup(LastCleaned, LastMatch))
LastPayload == JsonLoads(MatchGroup(LastCleaned, LastMatch))
\* the last request was a /transcribe with non-empty input
AcceptedTranscribe == request.route = "transcribe" /\ response.status # 400
LastUserTurn == UserTurn(<<request.body.input>>)
LastTurn == chat_history[Len(chat_history)]
\* the event id the response exposes, None when it exposes none
ExposedEventIds ==
    {EventIds[i] : i \in 1..Len(EventIds)}
    \cap ({DictGet(response.body, "event_id", None)}
          \cup {response.body.message[i] :
                   i \in 1..Len(DictGet(response.body, "message", <<>>))})
\* the calendar answered the last request with an event id
ReturnedEventId ==
    /\ \E i \in 1..Len(calls) : calls[i] = "events.insert"
    /\ request.calendar.insert = "ok"
AllKeys ==
    {"title", "description", "agenda", "attendees", "date", "time", "timezone"}

(***************************************************************************)
(* C1: whenever the cleaned model reply of a /transcribe with non-empty    *)
(* input starts with CLARIFY, the request completes normally, appends the  *)
(* user turn and exactly one assistant turn carrying the cleaned reply     *)
(* verbatim, leaves meeting_details unchanged and exposes no event id.     *)
(***************************************************************************)
C1_ClarifyRelayedVerbatim ==
    [][(AcceptedTranscribe' /\ StartsWith(LastCleaned', "CLARIFY"))
       => /\ response'.status = 200
          /\ chat_history' = chat_history
                \o <<LastUserTurn', AssistantTurn(LastCleaned')>>
          /\ response'.body.message = LastCleaned'
          /\ meeting_details' = meeting_details
          /\ ExposedEventIds' = {}]_vars

(***************************************************************************)
(* C2: a /transcribe whose cleaned model reply is exactly SCHEDULE does    *)
(* what /schedule does on the same draft with the same collaborator        *)
(* answers: same calls, same assistant turn, same meeting_details; only    *)
(* the user turn is extra.                                                 *)
(***************************************************************************)
C2_ScheduleReplyActsAsScheduleRoute ==
    [][(AcceptedTranscribe' /\ LastCleaned' = <<"SCHEDULE">>)
       => \E out \in CalendarOutcomes(Len(calendar) >= MaxEvents) :
             LET r == ScheduleHandler(out)
             IN /\ response'.status = 200
                /\ chat_history' = chat_history
                      \o <<LastUserTurn', r.chat_history[Len(r.chat_history)]>>
                /\ meeting_details' = r.meeting_details
                /\ calendar' = r.calendar
                /\ meetings' = r.meetings
                /\ calls' = <<"generate_content">> \o r.calls]_vars

(***************************************************************************)
(* C3: after /schedule on a non-empty draft, meeting_details is empty      *)
(* exactly when the calendar returned an event id, whether or not the      *)
(* record was then stored; when the calendar service is unavailable or     *)
(* the insert raises, meeting_details is the draft the request found.      *)
(***************************************************************************)
C3_DraftClearedIffEventId ==
    (request.route = "schedule" /\ DictTruthy(request.prior_details))
    => /\ (meeting_details = EmptyDict) <=> ReturnedEventId
       /\ ReturnedEventId => ExposedEventIds # {}
       /\ ~ReturnedEventId => /\ meeting_details = request.prior_details
                              /\ ExposedEventIds = {}

\* the event was created, storing the record failed, the draft is cleared
C3_Witness ==
    /\ request.route = "schedule"
    /\ DictTruthy(request.prior_details)
    /\ ReturnedEventId
    /\ supabase # None
    /\ request.calendar.store = "raise"
    /\ meeting_details = EmptyDict

(***************************************************************************)
(* C4: whatever the language model call yields, a /transcribe with         *)
(* non-empty input completes without an uncaught exception and appends     *)
(* the user turn followed by exactly one assistant turn; when the model    *)
(* is not configured, meeting_details is unchanged.                        *)
(***************************************************************************)
C4_EveryModelOutcomeAnswered ==
    [][AcceptedTranscribe'
       => /\ response'.status = 200
          /\ response'.exception = None
          /\ Len(chat_history') = Len(chat_history) + 2
          /\ SubSeq(chat_history', 1, Len(chat_history) + 1)
                = Append(chat_history, LastUserTurn')
          /\ LastTurn'.role = "Assistant"
          /\ (llm = None => meeting_details' = meeting_details)]_vars

(***************************************************************************)
(* C5: when the calendar event is created and storing the record fails,    *)
(* the reply message and the appended assistant turn are the               *)
(* scheduled-but-failed-to-store message, and the draft is cleared.        *)
(***************************************************************************)
C5_StoreFailureReported ==
    (/\ response.branch = "schedule"
     /\ ReturnedEventId
     /\ supabase # None
     /\ request.calendar.store = "raise")
    => /\ response.body.message = StoreFailedMessage
       /\ LastTurn = AssistantTurn(StoreFailedMessage)
       /\ meeting_details = EmptyDict

(***************************************************************************)
(* C6: /schedule on an empty meeting_details calls neither the calendar    *)
(* nor the store, appends exactly one assistant turn with the              *)
(* nothing-to-schedule message, exposes no event id and leaves             *)
(* meeting_details empty.                                                  *)
(***************************************************************************)
C6_EmptyDraftNothingToSchedule ==
    [][(request'.route = "schedule" /\ ~DictTruthy(meeting_details))
       => /\ calls' = <<>>
          /\ calendar' = calendar
          /\ meetings' = meetings
          /\ calendar_service' = calendar_service
          /\ chat_history'
                = Append(chat_history, AssistantTurn(NothingToScheduleMessage))
          /\ response'.body.message = NothingToScheduleMessage
          /\ ExposedEventIds' = {}
          /\ meeting_details' = EmptyDict]_vars

C6_Witness ==
    /\ request.route = "schedule"
    /\ request.prior_details = EmptyDict
    /\ response.status = 200
    /\ LastTurn = AssistantTurn(NothingToScheduleMessage)

(***************************************************************************)
(* C7: a draft is scheduled at most once.  A step that creates a calendar  *)
(* event starts from a non-empty draft and leaves it empty; an empty       *)
(* draft becomes non-empty only by a /transcribe turn that merged a        *)
(* Fields reply into meeting_details; and /schedule on an empty draft      *)
(* reports nothing-to-schedule and creates no event.                       *)
(***************************************************************************)
C7_ScheduledAtMostOnce ==
    [][/\ Len(calendar') > Len(calendar)
          => DictTruthy(meeting_details) /\ meeting_details' = EmptyDict
       /\ (~DictTruthy(meeting_details) /\ DictTruthy(meeting_details'))
          => /\ request'.route = "transcribe"
             /\ response'.branch \in AssigningBranches
       /\ (request'.route = "schedule" /\ ~DictTruthy(meeting_details))
          => /\ response'.body.message = NothingToScheduleMessage
             /\ calendar' = calendar]_vars

\* an event was created earlier and a later /schedule found nothing to schedule
C7_Witness ==
    /\ Len(calendar) >= 1
    /\ request.route = "schedule"
    /\ response.branch = "nothing to schedule"
    /\ meeting_details = EmptyDict

(***************************************************************************)
(* C8 as stated: whenever meeting_details is non-empty, its title is       *)
(* neither empty nor whitespace-only, whatever titles the Fields replies   *)
(* carried.                                                                *)
(***************************************************************************)
C8_TitleNeverBlank ==
    DictTruthy(meeting_details) => StrStrip(meeting_details.title) # ""

(***************************************************************************)
(* C8 amended: whenever meeting_details is non-empty, its title is not     *)
(* the empty string; a Fields update takes the extracted title unless it   *)
(* is the empty string, and then the prior title, else "Meeting" (a        *)
(* whitespace-only title is stored as given); the summary of every         *)
(* calendar event is neither empty nor whitespace-only.                    *)
(***************************************************************************)
C8_TitleNeverEmpty ==
    /\ DictTruthy(meeting_details) => meeting_details.title # ""
    /\ response.branch = "fields"
       => meeting_details.title
             = IF LastPayload.title # "" THEN LastPayload.title
               ELSE DictGet(request.prior_details, "title", "Meeting")
    /\ \A i \in 1..Len(calendar) : StrStrip(calendar[i].summary) # ""

\* a reply with an empty title on a draft titled Standup kept that title
C8_Witness ==
    /\ response.branch = "fields"
    /\ LastPayload.title = ""
    /\ DictTruthy(request.prior_details)
    /\ request.prior_details.title = "Standup"
    /\ meeting_details.title = "Standup"

(***************************************************************************)
(* C9: a reply whose JSON object omits some of the keys title,             *)
(* description, agenda, attendees, date, time, timezone, applied to a      *)
(* populated draft, is accepted as a Fields update, and the draft keeps    *)
(* the prior value of every omitted field (for date and time, that         *)
(* component of the prior start time).                                     *)
(***************************************************************************)
C9_OmittedFieldsRetained ==
    (/\ AcceptedTranscribe
     /\ LastParsed
     /\ DictTruthy(request.prior_details)
     /\ AllKeys \ DOMAIN LastPayload # {})
    => /\ response.branch = "fields"
       /\ \A F \in (AllKeys \ DOMAIN LastPayload) \ {"date", "time"} :
             meeting_details[F] = request.prior_details[F]
       /\ "date" \notin DOMAIN LastPayload
          => /\ meeting_details.start_time.year
                   = request.prior_details.start_time.year
             /\ meeting_details.start_time.month
                   = request.prior_details.start_time.month
             /\ meeting_details.start_time.day
                   = request.prior_details.start_time.day
       /\ "time" \notin DOMAIN LastPayload
          => /\ meeting_details.start_time.hour
                   = request.prior_details.start_time.hour
             /\ meeting_details.start_time.minute
                   = request.prior_details.start_time.minute

(***************************************************************************)
(* C10: after a Fields update the attendee list of the draft is exactly    *)
(* the extracted list when that list is non-empty (same order, duplicates  *)
(* kept, nothing carried over), and the prior attendee list when the       *)
(* extracted list is empty.                                                *)
(***************************************************************************)
C10_AttendeesOverwritten ==
    response.branch = "fields"
    => meeting_details.attendees
          = IF LastPayload.attendees # <<>> THEN LastPayload.attendees
            ELSE DictGet(request.prior_details, "attendees", <<>>)

\* the draft listed a and b; the reply listed c twice; the draft lists c twice
C10_Witness ==
    /\ response.branch = "fields"
    /\ DictTruthy(request.prior_details)
    /\ request.prior_details.attendees = <<"a@x.com", "b@x.com">>
    /\ LastPayload.attendees = <<"c@x.com", "c@x.com">>
    /\ meeting_details.attendees = <<"c@x.com", "c@x.com">>

(***************************************************************************)
(* C11: a /transcribe whose input is missing or empty is answered with     *)
(* HTTP 400 and an error body, and changes nothing: chat_history,          *)
(* meeting_details and calendar_service are as before, no user turn is     *)
(* appended, and neither the model nor the calendar side is called.        *)
(***************************************************************************)
C11_NoInputChangesNothing ==
    [][(/\ request'.route = "transcribe"
        /\ DictGet(request'.body, "input", None) \in {None, ""})
       => /\ response'.status = 400
          /\ DOMAIN response'.body = {"error", "chat_history"}
          /\ response'.body.chat_history = chat_history
          /\ chat_history' = chat_history
          /\ meeting_details' = meeting_details
          /\ calendar_service' = calendar_service
          /\ calendar' = calendar
          /\ meetings' = meetings
          /\ calls' = <<>>]_vars

\* an input-less request answered 400 in the middle of a conversation
C11_Witness ==
    /\ request.route = "transcribe"
    /\ request.body = EmptyDict
    /\ response.status = 400
    /\ Len(chat_history) >= 2
    /\ DictTruthy(meeting_details)

(***************************************************************************)
(* C12: chat_history is append-only: after every request the previous      *)
(* chat_history is a prefix of the new one; a /transcribe with non-empty   *)
(* input appends the user turn first, before any assistant turn of that    *)
(* request; and the chat_history of a reply is the full transcript.        *)
(***************************************************************************)
C12_ChatHistoryAppendOnly ==
    [][/\ Len(chat_history') >= Len(chat_history)
       /\ SubSeq(chat_history', 1, Len(chat_history)) = chat_history
       /\ AcceptedTranscribe'
          => /\ Len(chat_history') > Len(chat_history)
             /\ chat_history'[Len(chat_history) + 1] = LastUserTurn'
             /\ \A i \in (Len(chat_history) + 2)..Len(chat_history') :
                   chat_history'[i].role = "Assistant"
       /\ "chat_history" \in DOMAIN response'.body
          => response'.body.chat_history = chat_history']_vars

\* a later turn of a conversation whose reply carries the whole transcript
C12_Witness ==
    /\ AcceptedTranscribe
    /\ response.status = 200
    /\ Len(chat_history) >= 4
    /\ response.body.chat_history = chat_history

(***************************************************************************)
(* C13: requests that overlap on the shared state are serialized, so one   *)
(* draft never produces two calendar events: no two events of the          *)
(* calendar were created from the same draft.                              *)
(***************************************************************************)
C13_OneEventPerDraft ==
    \A i, j \in 1..Len(event_drafts) :
       i # j => event_drafts[i] # event_drafts[j]

\* the last /transcribe reached the else branch with a well-formed object
LastFieldsReply ==
    /\ AcceptedTranscribe
    /\ LastParsed
    /\ LastCleaned # <<"SCHEDULE">>
    /\ ~StartsWith(LastCleaned, "CLARIFY")

(***************************************************************************)
(* C14: when the timezone of a Fields reply is not a recognized zone name  *)
(* (empty, missing or invalid) and the rest of the reply is in order, the  *)
(* turn is still accepted as a Fields update, the draft's timezone is the  *)
(* prior draft's timezone if there is one and Asia/Kolkata otherwise, and  *)
(* the other fields are merged; so the timezone of a draft is always a     *)
(* valid zone identifier.                                                  *)
(***************************************************************************)
C14_UnrecognizedZoneFallsBack ==
    /\ (/\ LastFieldsReply
        /\ AllKeys \ {"timezone"} \subseteq DOMAIN LastPayload
        /\ LastPayload.date \in ParsableDates
        /\ LastPayload.time \in ParsableTimes
        /\ DictGet(LastPayload, "timezone", "") \notin KnownZones)
       => /\ response.branch = "fields"
          /\ meeting_details.timezone
                = DictGet(request.prior_details, "timezone", "Asia/Kolkata")
          /\ meeting_details.title
                = StrOr(LastPayload.title,
                        DictGet(request.prior_details, "title", "Meeting"))
    /\ DictTruthy(meeting_details)
       => meeting_details.timezone \in KnownZones

(***************************************************************************)
(* C15: a reply whose JSON parses but lacks one of the keys date, time or  *)
(* timezone is handled exactly like a malformed-JSON reply: the assistant  *)
(* turn appended is the "trouble understanding your meeting details"       *)
(* message and meeting_details is unchanged.                               *)
(***************************************************************************)
C15_MissingKeyLikeMalformedJson ==
    (/\ LastFieldsReply
     /\ {"date", "time", "timezone"} \ DOMAIN LastPayload # {})
    => /\ LastTurn = AssistantTurn(DecodeErrorMessage)
       /\ response.body.message = DecodeErrorMessage
       /\ meeting_details = request.prior_details

\* the branches of transcribe() that end in the except clause of line 312
UnexpectedFailures ==
    {"KeyError", "ValueError", "UnknownTimeZoneError", "TypeError"}
\* str(e) of the exception the last /transcribe caught at line 312
LastExceptionText ==
    LET p == ParseAndMerge(MatchGroup(LastCleaned, LastMatch),
                           request.prior_details)
    IN IF p.exception = "none" THEN JoinTypeErrorText(p.details.attendees)
       ELSE p.text
\* text occurs in message
ContainsText(message, text) ==
    \E i \in 1..(Len(message) - Len(text) + 1) :
       SubSeq(message, i, i + Len(text) - 1) = text

(***************************************************************************)
(* C16: for any unexpected failure while /transcribe processes a model     *)
(* reply (missing key, unparsable date or time, unknown timezone, wrong    *)
(* value types), the assistant turn appended to chat_history does not      *)
(* contain the text of the internal exception, and meeting_details is      *)
(* unchanged.                                                              *)
(***************************************************************************)
C16_FailureTextNotExposed ==
    (AcceptedTranscribe /\ response.branch \in UnexpectedFailures)
    => /\ LastTurn.role = "Assistant"
       /\ ~ContainsText(LastTurn.message, LastExceptionText)
       /\ meeting_details = request.prior_details

\* the current date the prompt states, May 18, 2025
AnchorDate == [year |-> 2025, month |-> 5, day |-> 18]
\* date a is on or after date b
OnOrAfter(a, b) ==
    \/ a.year > b.year
    \/ a.year = b.year /\ a.month > b.month
    \/ a.year = b.year /\ a.month = b.month /\ a.day >= b.day

(***************************************************************************)
(* C17: in every state with a non-empty draft, the draft's start_time is   *)
(* on or after the anchor date 2025-05-18, whatever date the model's       *)
(* Fields reply supplies.                                                  *)
(***************************************************************************)
C17_StartOnOrAfterAnchor ==
    DictTruthy(meeting_details)
    => OnOrAfter(meeting_details.start_time, AnchorDate)

\* the value of the empty-string fallback of each text field of the draft
TextFieldDefault(F) == IF F = "title" THEN "Meeting" ELSE ""

(***************************************************************************)
(* C18: for title, description and agenda, a Fields reply with valid date, *)
(* time and timezone that supplies the empty string for the field yields a *)
(* draft in which the field has its prior value, or the default ("Meeting" *)
(* for title, the empty string for description and agenda) when there is   *)
(* no prior draft; a non-empty supplied value replaces the prior one.      *)
(***************************************************************************)
C18_EmptyTextKeepsPrior ==
    (LastFieldsReply /\ response.branch = "fields")
    => \A F \in {"title", "description", "agenda"} :
          /\ LastPayload[F] = ""
             => meeting_details[F]
                  = IF DictTruthy(request.prior_details)
                    THEN request.prior_details[F]
                    ELSE TextFieldDefault(F)
          /\ LastPayload[F] # ""
             => meeting_details[F] = LastPayload[F]

\* an empty description supplied over a draft that had one
C18_Witness ==
    /\ LastFieldsReply
    /\ response.branch = "fields"
    /\ LastPayload.description = ""
    /\ DictTruthy(request.prior_details)
    /\ request.prior_details.description # ""
    /\ meeting_details.description = request.prior_details.description

\* the UTC offset, in minutes, in force in the zone in May 2025
ZoneOffset(zone) ==
    CASE zone = "Asia/Kolkata" -> 330
      [] zone = "UTC" -> 0

(***************************************************************************)
(* C19: the start timestamp built from a Fields reply, and the start and   *)
(* end dateTime sent to the calendar, carry the UTC offset the resolved    *)
(* timezone has at that date and time (+05:30 for Asia/Kolkata), and the   *)
(* end of an event is its start plus 60 minutes in the same timezone.      *)
(***************************************************************************)
C19_OffsetOfResolvedZone ==
    /\ DictTruthy(meeting_details)
       => meeting_details.start_time.utcoffset
            = ZoneOffset(meeting_details.timezone)
    /\ \A i \in 1..Len(calendar) :
          /\ calendar[i].start.dateTime.utcoffset
                = ZoneOffset(calendar[i].start.timeZone)
          /\ calendar[i].end.dateTime.utcoffset
                = ZoneOffset(calendar[i].end.timeZone)
          /\ calendar[i].end.timeZone = calendar[i].start.timeZone
          /\ calendar[i].end.dateTime = AddHour(calendar[i].start.dateTime)

DraftKeys ==
    {"title", "description", "agenda", "start_time", "attendees", "timezone"}
\* the branches of transcribe() that fail before the assignment at line 282
FailuresBeforeAssignment ==
    {"JSONDecodeError", "KeyError", "ValueError", "UnknownTimeZoneError"}

(***************************************************************************)
(* C20: draft updates are all-or-nothing: in every state meeting_details   *)
(* is empty or holds all six keys title, description, agenda, start_time,  *)
(* attendees and timezone, and a /transcribe turn that fails at JSON       *)
(* decoding, at a missing key, at date/time parsing or at the timezone     *)
(* lookup leaves meeting_details exactly as it was before the turn.        *)
(***************************************************************************)
C20_DraftAllOrNothing ==
    /\ DOMAIN meeting_details \in {{}, DraftKeys}
    /\ (AcceptedTranscribe /\ response.branch \in FailuresBeforeAssignment)
       => meeting_details = request.prior_details

\* a reply with an unparsable date over a populated draft
C20_Witness ==
    /\ AcceptedTranscribe
    /\ response.branch = "ValueError"
    /\ DOMAIN request.prior_details = DraftKeys
    /\ LastPayload.title # request.prior_details.title
    /\ meeting_details = request.prior_details

====
